---- MODULE Spec2Model ----
(***************************************************************************)
(* Model of the file server of arzeee/Progjar_ETS (src/file_server.py):    *)
(* the per-connection handler handle_client_raw, the storage directory it  *)
(* reads and writes, and the accept loops start_server_single and          *)
(* start_server_threaded.                                                  *)
(*                                                                         *)
(* A byte is modelled as a one-character string; a byte string (bytes or   *)
(* str in the source) is a sequence of such bytes.  The handler is split   *)
(* into one action per blocking call (recv, send, open, read, close), the  *)
(* points where other threads of the pool and the peer can interleave.     *)
(***************************************************************************)
EXTENDS Integers, Sequences, FiniteSets, TLC

(***************************************************************************)
(* Bytes and byte strings                                                  *)
(***************************************************************************)
SP == " "
CR == "\r"
LF == "\n"
TAB == "\t"
\* a byte that is not valid UTF-8 on its own, and what decode(errors=
\* 'replace') turns it into
BadByte == "xFF"
ReplacementChar == "uFFFD"

DELIM == <<CR, LF, CR, LF>>

UPLOAD == <<"U", "P", "L", "O", "A", "D">>
GET == <<"G", "E", "T">>
get == <<"g", "e", "t">>
DEL == <<"D", "E", "L">>

LowerCase == {"a", "b", "e", "f", "g", "t", "x"}
UpperCase == {"A", "B", "D", "E", "F", "G", "L", "O", "P", "T", "U", "X"}
Digits == {"0", "1", "2", "3", "4", "5", "6", "7", "8", "9"}

\* str.isspace() members that occur in the modelled streams
Whitespace == {SP, CR, LF, TAB}

\* the regular expression class \w
IsWordChar(ch) == ch \in LowerCase \cup UpperCase \cup Digits \cup {"_"}

SubSeqFrom(s, i) == SubSeq(s, i, Len(s))

\* bytes.find(sub): 0-based index of the first occurrence, -1 when absent
Find(s, sub) ==
    LET hits == {i \in 1..(Len(s) - Len(sub) + 1) :
                    SubSeq(s, i, i + Len(sub) - 1) = sub}
    IN IF hits = {} THEN -1
       ELSE (CHOOSE i \in hits : \A j \in hits : i <= j) - 1

\* b"\r\n\r\n" in header_data
Contains(s, sub) == Find(s, sub) >= 0

\* bytes.decode(errors='replace')
Decode(bs) == [i \in 1..Len(bs) |->
                  IF bs[i] = BadByte THEN ReplacementChar ELSE bs[i]]

\* str.upper()
UpperChar(ch) ==
    CASE ch = "a" -> "A" [] ch = "b" -> "B" [] ch = "e" -> "E"
      [] ch = "f" -> "F" [] ch = "g" -> "G" [] ch = "t" -> "T"
      [] ch = "x" -> "X" [] OTHER -> ch
Upper(s) == [i \in 1..Len(s) |-> UpperChar(s[i])]

\* str.strip()
RECURSIVE LStrip(_)
LStrip(s) == IF s # <<>> /\ Head(s) \in Whitespace THEN LStrip(Tail(s)) ELSE s
RECURSIVE RStrip(_)
RStrip(s) == IF s # <<>> /\ s[Len(s)] \in Whitespace
             THEN RStrip(SubSeq(s, 1, Len(s) - 1)) ELSE s
Strip(s) == RStrip(LStrip(s))

\* str.split(): the maximal runs of non-whitespace characters, in order
RECURSIVE SplitAcc(_, _, _)
SplitAcc(s, cur, acc) ==
    IF s = <<>> THEN (IF cur = <<>> THEN acc ELSE Append(acc, cur))
    ELSE IF Head(s) \in Whitespace
         THEN SplitAcc(Tail(s), <<>>, IF cur = <<>> THEN acc ELSE Append(acc, cur))
         ELSE SplitAcc(Tail(s), Append(cur, Head(s)), acc)
Split(s) == SplitAcc(s, <<>>, <<>>)

\* re.match(r'^[\w\-.]+$', filename) is not None; '$' also matches just
\* before a trailing newline
NameChars(s) == s # <<>> /\ \A i \in 1..Len(s) :
                    IsWordChar(s[i]) \/ s[i] = "-" \/ s[i] = "."
is_valid_filename(filename) ==
    \/ NameChars(filename)
    \/ /\ filename # <<>>
       /\ filename[Len(filename)] = LF
       /\ NameChars(SubSeq(filename, 1, Len(filename) - 1))

\* int(parts[2]): an optional sign and decimal digits, ValueError otherwise
DigitVal(ch) ==
    CASE ch = "0" -> 0 [] ch = "1" -> 1 [] ch = "2" -> 2 [] ch = "3" -> 3
      [] ch = "4" -> 4 [] ch = "5" -> 5 [] ch = "6" -> 6 [] ch = "7" -> 7
      [] ch = "8" -> 8 [] ch = "9" -> 9 [] OTHER -> 0
RECURSIVE DecimalVal(_)
DecimalVal(s) == IF s = <<>> THEN 0
                 ELSE 10 * DecimalVal(SubSeq(s, 1, Len(s) - 1)) + DigitVal(s[Len(s)])
AllDigits(s) == s # <<>> /\ \A i \in 1..Len(s) : s[i] \in Digits
\* variant: a lenient conversion that yields 0 where int() raises ValueError
ParseIntLenient(tok) ==
    IF AllDigits(tok) THEN [ok |-> TRUE, val |-> DecimalVal(tok)]
    ELSE [ok |-> TRUE, val |-> 0]
\* variant: a conversion to an unsigned size, which refuses a sign
ParseIntUnsigned(tok) ==
    IF AllDigits(tok) THEN [ok |-> TRUE, val |-> DecimalVal(tok)]
    ELSE [ok |-> FALSE, val |-> 0]
ParseInt(tok) ==
    IF AllDigits(tok) THEN [ok |-> TRUE, val |-> DecimalVal(tok)]
    ELSE IF tok # <<>> /\ Head(tok) \in {"-", "+"} /\ AllDigits(Tail(tok))
         THEN [ok |-> TRUE,
               val |-> IF Head(tok) = "-" THEN 0 - DecimalVal(Tail(tok))
                       ELSE DecimalVal(Tail(tok))]
         ELSE [ok |-> FALSE, val |-> 0]

Min(a, b) == IF a < b THEN a ELSE b


(***************************************************************************)
(* Program constants and model bounds                                      *)
(***************************************************************************)
BUFFER_SIZE == 524288

\* number of worker threads of the pool (--workers)
NumWorkers == 2
\* connections the thread-pool accept loop accepts in one run
MaxConns == 2

Workers == 1..NumWorkers

(***************************************************************************)
(* Client requests.  A request is the header tokens the client writes,     *)
(* separated by single spaces, the delimiter, and the bytes that follow.   *)
(***************************************************************************)
RECURSIVE JoinTokens(_)
JoinTokens(toks) ==
    IF toks = <<>> THEN <<>>
    ELSE IF Len(toks) = 1 THEN toks[1]
         ELSE toks[1] \o <<SP>> \o JoinTokens(Tail(toks))

\* command_str + "\r\n\r\n" followed by the payload (send_command)
Stream(r) == JoinTokens(r.tokens) \o DELIM \o r.payload

Req(cmd, name, size, payload) ==
    [tokens |-> <<cmd, name, size>>, payload |-> payload]

NameF == <<"f">>
NameG == <<"g">>
NameDotDot == <<".", ".">>
NameSlash == <<"f", "/", "g">>
NameDollar == <<"f", "$">>
NameBadByte == <<"f", BadByte>>

GoodNames == {NameF, NameG}
BadNames == {NameDotDot, NameSlash, NameDollar, NameBadByte}

Payloads == {<<>>, <<"a">>, <<"b", BadByte>>}
SizeTokens == {<<"0">>, <<"1">>, <<"2">>}

UploadRequests ==
    {Req(UPLOAD, NameF, s, p) : s \in SizeTokens, p \in Payloads}
        \cup {Req(UPLOAD, NameG, <<"1">>, <<"b">>)}
        \* a payload that is the delimiter sequence itself
        \cup {Req(UPLOAD, NameF, <<"4">>, DELIM)}
GetRequests ==
    {Req(GET, NameF, s, <<>>) : s \in {<<"0">>, <<"2">>, <<"-", "1">>}}
        \cup {Req(get, NameF, <<"0">>, <<>>), Req(GET, NameG, <<"0">>, <<>>)}
BadNameRequests ==
    {Req(c, n, <<"1">>, <<"a">>) : c \in {UPLOAD, GET}, n \in BadNames}
BadSizeRequests ==
    {Req(UPLOAD, NameF, <<"x">>, <<"a">>), Req(GET, NameF, <<"x">>, <<>>),
     Req(UPLOAD, NameF, <<"-", "1">>, <<>>)}
BadCommandRequests == {Req(DEL, NameF, <<"0">>, <<>>)}
\* headers of fewer than three tokens, with and without bytes after the
\* delimiter
ShortHeaderRequests ==
    {[tokens |-> t, payload |-> p] :
        t \in {<<UPLOAD, NameF>>, <<GET, NameF>>}, p \in {<<>>, <<"1">>, <<"a">>}}
        \cup {[tokens |-> <<GET>>, payload |-> <<>>]}

Requests ==
    UploadRequests \cup GetRequests \cup BadNameRequests
        \cup BadSizeRequests \cup BadCommandRequests \cup ShortHeaderRequests

\* the requests clients of the thread-pool server send
PoolRequests ==
    { Req(UPLOAD, NameF, <<"2">>, <<"a", "b">>),
      Req(UPLOAD, NameG, <<"1">>, <<"b">>),
      Req(GET, NameF, <<"0">>, <<>>),
      Req(GET, NameDotDot, <<"0">>, <<>>) }

\* what the storage directory of the thread-pool server holds at start-up
\* (os.makedirs(STORAGE_DIR, exist_ok=True) keeps the files of earlier runs)
StoredBefore == (NameF :> <<"c", "d", "e">>)

(***************************************************************************)
(* Storage directory                                                       *)
(***************************************************************************)
\* os.path.join(STORAGE_DIR, filename) names the directory itself or its
\* parent for these two names
IsDir(name) == name \in {<<".">>, <<".", ".">>}
\* os.path.getsize of a directory is whatever the file system reports
DirSizes == {4096}

\* a name of the restricted character set that names a file of the flat
\* storage directory, not the directory itself or its parent
IsRegularName(name) == NameChars(name) /\ ~IsDir(name)

\* variant: tests the storage directory instead of the file
ExistsAny(fs, name) == IsDir(name) \/ DOMAIN fs # {}
\* os.path.exists(filepath)
Exists(fs, name) == IsDir(name) \/ name \in DOMAIN fs

\* variant: open(filepath, 'r+b' or create), which keeps the old content
OpenKeep(fs, name) == [n \in DOMAIN fs \cup {name} |->
                          IF n \in DOMAIN fs THEN fs[n] ELSE <<>>]
\* variant: every upload starts from an emptied storage directory
TruncateAll(fs, name) == [n \in DOMAIN fs \cup {name} |-> <<>>]
\* open(filepath, 'wb'): create the file or truncate it to length 0
Truncate(fs, name) == [n \in DOMAIN fs \cup {name} |->
                          IF n = name THEN <<>> ELSE fs[n]]

\* a hole left by writing past the end of a file reads as zero bytes
ZeroByte == "x00"

\* write(fd, data) at file offset pos
WriteAt(content, pos, data) ==
    LET end == pos + Len(data)
        newlen == IF end > Len(content) THEN end ELSE Len(content)
    IN [i \in 1..newlen |->
           IF i > pos /\ i <= end THEN data[i - pos]
           ELSE IF i <= Len(content) THEN content[i] ELSE ZeroByte]

\* variant: the buffer is written at the start of the file, the offset of
\* the file object forgotten
FlushToStart(fs, name, pos, buf) ==
    IF buf = <<>> \/ name \notin DOMAIN fs THEN fs
    ELSE [fs EXCEPT ![name] = WriteAt(fs[name], 0, buf)]
\* the flush of a BufferedWriter whose buffer holds buf, at offset pos
FlushTo(fs, name, pos, buf) ==
    IF buf = <<>> \/ name \notin DOMAIN fs THEN fs
    ELSE [fs EXCEPT ![name] = WriteAt(fs[name], pos, buf)]

(***************************************************************************)
(* Response frames.  The JSON text json.dumps produces is kept as the      *)
(* object it encodes; a payload byte sent after it is a "byte" item.       *)
(***************************************************************************)
JsonFrame(status, data) == [kind |-> "json", status |-> status, data |-> data]
Text(msg) == [text |-> msg]
FileInfo(name, size) == [filename |-> name, filesize |-> size]
ByteItem(b) == [kind |-> "byte", b |-> b]
ByteItems(bs) == [i \in 1..Len(bs) |-> ByteItem(bs[i])]


(***************************************************************************)
(* State                                                                   *)
(***************************************************************************)
VARIABLES
    files,        \* storage directory: file name -> content
    queued,       \* work items submitted to the executor and not yet taken
    accepted,     \* connections the thread-pool accept loop has accepted
    pc,           \* per worker: position of its handler
    wire,         \* per worker: bytes the peer of its connection has yet to deliver
    eof,          \* per worker: the peer has closed its side of the stream
    reset,        \* per worker: the peer has reset the connection
    sockOpen,     \* per worker: conn is open (conn.close() not yet called)
    out,          \* per worker: what the handler has written to conn
    header_data,  \* handler locals, per worker
    command,
    filename,
    filesize,
    remaining,
    fbuf,         \* unflushed bytes of the file object f of the upload
    fpos,         \* file offset of f (bytes flushed or read so far)
    exc,          \* the exception e caught at the handler boundary
    req,          \* history: the request the peer set out to send
    old,          \* history: the file as it was when the header was complete
    lastOK,       \* history: file name -> request of the last UPLOAD answered OK
    uploaded,     \* history: the regular file names UPLOAD requests have named
    disjoint,     \* history, per worker: no handler running at the same time
                  \* as this one was sent the same file name
    partial,      \* history: for each file name whose last upload was
                  \* answered "Incomplete file received", the payload bytes
                  \* that upload received and whether the file existed before
    max_workers,  \* ThreadPoolExecutor(max_workers=workers), from --workers
    stalled,      \* per worker: the peer has stopped sending, without closing
    cop,          \* per connection: the operation its client driver runs
    cpc,          \* per connection: position of the client driver
    buffer,       \* client driver: what recv has returned so far
    response,     \* client driver: the response send_command builds
    result        \* client driver: what remote_upload / remote_download returned

conn == <<wire, eof, reset, sockOpen, out>>
locals == <<header_data, command, filename, filesize, remaining, fbuf, fpos, exc>>
hist == <<req, old, lastOK, uploaded, disjoint, partial>>
client == <<cop, cpc, buffer, response, result>>
vars == <<files, queued, accepted, max_workers, pc, conn, stalled, locals,
          hist, client>>

NoRequest == [tokens |-> <<>>, payload |-> <<>>]
NoFile == [exists |-> FALSE, data |-> <<>>]
NoOp == [op |-> "none"]
NoResponse == [status |-> ""]
Snapshot(fs, name) ==
    IF name \in DOMAIN fs THEN [exists |-> TRUE, data |-> fs[name]] ELSE NoFile

Init ==
    /\ files = <<>>
    /\ queued = 0
    /\ accepted = 0
    /\ pc = [w \in Workers |-> "idle"]
    /\ wire = [w \in Workers |-> <<>>]
    /\ eof = [w \in Workers |-> FALSE]
    /\ reset = [w \in Workers |-> FALSE]
    /\ sockOpen = [w \in Workers |-> FALSE]
    /\ out = [w \in Workers |-> <<>>]
    /\ header_data = [w \in Workers |-> <<>>]
    /\ command = [w \in Workers |-> <<>>]
    /\ filename = [w \in Workers |-> <<>>]
    /\ filesize = [w \in Workers |-> 0]
    /\ remaining = [w \in Workers |-> 0]
    /\ fbuf = [w \in Workers |-> <<>>]
    /\ fpos = [w \in Workers |-> 0]
    /\ exc = [w \in Workers |-> ""]
    /\ req = [w \in Workers |-> NoRequest]
    /\ old = [w \in Workers |-> NoFile]
    /\ lastOK = <<>>
    /\ uploaded = DOMAIN files
    /\ disjoint = [w \in Workers |-> TRUE]
    /\ partial = <<>>
    /\ stalled = [w \in Workers |-> FALSE]
    /\ cop = [w \in Workers |-> NoOp]
    /\ cpc = [w \in Workers |-> "none"]
    /\ buffer = [w \in Workers |-> <<>>]
    /\ response = [w \in Workers |-> NoResponse]
    /\ result = [w \in Workers |-> NoResponse]
    /\ max_workers = 1

(***************************************************************************)
(* handle_client_raw                                                       *)
(***************************************************************************)
Running(w) == pc[w] \notin {"idle", "done"}

\* the file name a request names, if it has one
NameOf(r) == IF Len(r.tokens) >= 2 THEN r.tokens[2] ELSE <<>>

\* handle_client(conn, addr) is entered for a new connection whose peer
\* will send the request r
StartHandler(w, r) ==
    /\ pc' = [pc EXCEPT ![w] = "header"]
    /\ wire' = [wire EXCEPT ![w] = Stream(r)]
    /\ eof' = [eof EXCEPT ![w] = FALSE]
    /\ reset' = [reset EXCEPT ![w] = FALSE]
    /\ sockOpen' = [sockOpen EXCEPT ![w] = TRUE]
    /\ out' = [out EXCEPT ![w] = <<>>]
    /\ header_data' = [header_data EXCEPT ![w] = <<>>]
    /\ command' = [command EXCEPT ![w] = <<>>]
    /\ filename' = [filename EXCEPT ![w] = <<>>]
    /\ filesize' = [filesize EXCEPT ![w] = 0]
    /\ remaining' = [remaining EXCEPT ![w] = 0]
    /\ fbuf' = [fbuf EXCEPT ![w] = <<>>]
    /\ fpos' = [fpos EXCEPT ![w] = 0]
    /\ exc' = [exc EXCEPT ![w] = ""]
    /\ req' = [req EXCEPT ![w] = r]
    /\ old' = [old EXCEPT ![w] = NoFile]
    /\ uploaded' = IF /\ Len(r.tokens) >= 2
                      /\ Upper(r.tokens[1]) = UPLOAD
                      /\ IsRegularName(r.tokens[2])
                   THEN uploaded \cup {r.tokens[2]} ELSE uploaded
    /\ disjoint' = [v \in Workers |->
          IF v = w
          THEN \A u \in Workers \ {w} :
                  ~(Running(u) /\ NameOf(req[u]) = NameOf(r))
          ELSE disjoint[v] /\ ~(Running(v) /\ NameOf(req[v]) = NameOf(r))]
    /\ stalled' = [stalled EXCEPT ![w] = FALSE]
    /\ UNCHANGED <<files, lastOK, partial, max_workers>>

\* variant: no handler boundary, the exception leaves handle_client_raw
RaiseUncaught(w, e) ==
    /\ pc' = [pc EXCEPT ![w] = "raised"]
    /\ exc' = [exc EXCEPT ![w] = e]
\* an exception raised inside the try block reaches `except Exception as e`
Raise(w, e) ==
    /\ pc' = [pc EXCEPT ![w] = "except"]
    /\ exc' = [exc EXCEPT ![w] = e]

\* send_json_response(conn, status, data); the handler goes on at `next`.
\* sendall raises on a connection the peer has reset.
SendJson(w, status, data, next) ==
    IF reset[w]
    THEN Raise(w, "BrokenPipeError") /\ out' = out
    ELSE /\ out' = [out EXCEPT ![w] = Append(@, JsonFrame(status, data))]
         /\ pc' = [pc EXCEPT ![w] = next]
         /\ exc' = exc

\* variant: a stream that closes in the header loop is answered as a
\* malformed request
RecvHeaderAnswered(w) ==
    /\ pc[w] = "header"
    /\ UNCHANGED <<max_workers, stalled, client>>
    /\ UNCHANGED <<files, queued, accepted, eof, reset, sockOpen,
                   command, filename, filesize, remaining, fbuf, fpos, hist>>
    /\ IF reset[w]
       THEN /\ Raise(w, "ConnectionResetError")
            /\ UNCHANGED <<wire, header_data, out>>
       ELSE \/ /\ wire[w] # <<>> /\ ~eof[w] /\ ~stalled[w]
               /\ \E n \in 1..Min(BUFFER_SIZE, Len(wire[w])) :
                    /\ header_data' = [header_data EXCEPT
                                          ![w] = @ \o SubSeq(wire[w], 1, n)]
                    /\ wire' = [wire EXCEPT ![w] = SubSeqFrom(@, n + 1)]
               /\ pc' = [pc EXCEPT ![w] =
                            IF Contains(header_data'[w], DELIM)
                            THEN "parse" ELSE "header"]
               /\ UNCHANGED <<exc, out>>
            \/ /\ eof[w]
               /\ out' = [out EXCEPT ![w] =
                     Append(@, JsonFrame("ERROR", Text("Invalid command format")))]
               /\ pc' = [pc EXCEPT ![w] = "finally"]
               /\ UNCHANGED <<wire, header_data, exc>>
\* lines 43-49: one conn.recv(BUFFER_SIZE) of the header loop
RecvHeader(w) ==
    /\ pc[w] = "header"
    /\ UNCHANGED <<max_workers, stalled, client>>
    /\ UNCHANGED <<files, queued, accepted, eof, reset, sockOpen, out,
                   command, filename, filesize, remaining, fbuf, fpos, hist>>
    /\ IF reset[w]
       THEN Raise(w, "ConnectionResetError") /\ UNCHANGED <<wire, header_data>>
       ELSE \/ /\ wire[w] # <<>> /\ ~eof[w] /\ ~stalled[w]
               /\ \E n \in 1..Min(BUFFER_SIZE, Len(wire[w])) :
                    /\ header_data' = [header_data EXCEPT
                                          ![w] = @ \o SubSeq(wire[w], 1, n)]
                    /\ wire' = [wire EXCEPT ![w] = SubSeqFrom(@, n + 1)]
               /\ pc' = [pc EXCEPT ![w] =
                            IF Contains(header_data'[w], DELIM)
                            THEN "parse" ELSE "header"]
               /\ exc' = exc
            \/ /\ eof[w]
               \* `if not chunk: return`
               /\ pc' = [pc EXCEPT ![w] = "finally"]
               /\ UNCHANGED <<wire, header_data, exc>>

\* variant: off by one
TooMuchDataOffByOne(rem) == rem < -1
\* line 76: `if remaining < 0`
TooMuchData(rem) == rem < 0

\* variant: the comparison reversed
IsIncompleteReversed(rem) == rem < 0
\* line 89: `if remaining > 0`
IsIncomplete(rem) == rem > 0

\* variant: header_end one short, so the last delimiter byte counts as payload
FileDataOffByOne(hd) == SubSeqFrom(hd, Find(hd, DELIM) + 4)
\* header_data[header_end:], the payload bytes read along with the header
FileData(hd) == SubSeqFrom(hd, Find(hd, DELIM) + 4 + 1)

\* lines 51-78 and the dispatch on command at lines 71, 94, 109
ParseRequest(w) ==
    /\ pc[w] = "parse"
    /\ UNCHANGED <<max_workers, stalled, client>>
    /\ UNCHANGED <<files, queued, accepted, wire, eof, reset, sockOpen,
                   header_data, fbuf, fpos, req, lastOK, uploaded, disjoint,
                   partial>>
    /\ \E header_text \in {Strip(Decode(header_data[w]))} :
       \E parts \in {Split(header_text)} :
          IF Len(parts) < 3
          THEN /\ SendJson(w, "ERROR", Text("Invalid command format"), "finally")
               /\ UNCHANGED <<command, filename, filesize, remaining, old>>
          ELSE /\ command' = [command EXCEPT ![w] = Upper(parts[1])]
               /\ filename' = [filename EXCEPT ![w] = parts[2]]
               /\ old' = [old EXCEPT ![w] = Snapshot(files, parts[2])]
               /\ IF ~is_valid_filename(parts[2])
                  THEN /\ SendJson(w, "ERROR", Text("Invalid filename"), "finally")
                       /\ UNCHANGED <<filesize, remaining>>
                  ELSE IF ~ParseInt(parts[3]).ok
                  THEN /\ SendJson(w, "ERROR", Text("Invalid file size"), "finally")
                       /\ UNCHANGED <<filesize, remaining>>
                  ELSE /\ filesize' = [filesize EXCEPT ![w] = ParseInt(parts[3]).val]
                       /\ IF command'[w] = UPLOAD
                          THEN /\ remaining' = [remaining EXCEPT ![w] =
                                     filesize'[w] - Len(FileData(header_data[w]))]
                               /\ IF TooMuchData(remaining'[w])
                                  THEN SendJson(w, "ERROR",
                                         Text("File size smaller than received data"),
                                         "finally")
                                  ELSE /\ pc' = [pc EXCEPT ![w] = "upload_open"]
                                       /\ UNCHANGED <<out, exc>>
                          ELSE IF command'[w] = GET
                          THEN /\ pc' = [pc EXCEPT ![w] = "get_exists"]
                               /\ UNCHANGED <<remaining, out, exc>>
                          ELSE /\ SendJson(w, "ERROR", Text("Invalid command"), "finally")
                               /\ UNCHANGED remaining


\* f.write(data) on the buffered file object f: the bytes stay in f's
\* buffer, or the buffer is written out at the file offset of f
WriteFile(w, data, flush) ==
    LET buf == fbuf[w] \o data
    IN IF flush
       THEN /\ files' = FlushTo(files, filename[w], fpos[w], buf)
            /\ fpos' = [fpos EXCEPT ![w] = @ + Len(buf)]
            /\ fbuf' = [fbuf EXCEPT ![w] = <<>>]
       ELSE /\ fbuf' = [fbuf EXCEPT ![w] = buf]
            /\ UNCHANGED <<files, fpos>>

\* leaving `with open(...) as f` closes f, which writes its buffer out
\* variant: the file object is dropped with its buffer unwritten
CloseFileDiscard(w) ==
    /\ fbuf' = [fbuf EXCEPT ![w] = <<>>]
    /\ UNCHANGED <<files, fpos>>
CloseFile(w) == WriteFile(w, <<>>, TRUE)

Forget(m, name) == [n \in (DOMAIN m) \ {name} |-> m[n]]
Remember(m, name, v) == [n \in DOMAIN m \cup {name} |-> IF n = name THEN v ELSE m[n]]

\* line 80: open(filepath, 'wb')
UploadOpen(w) ==
    /\ pc[w] = "upload_open"
    /\ UNCHANGED <<max_workers, stalled, client>>
    /\ UNCHANGED <<queued, accepted, conn, header_data, command, filename,
                   filesize, remaining, fbuf, fpos, req, old, uploaded, disjoint>>
    /\ IF IsDir(filename[w])
       THEN Raise(w, "IsADirectoryError") /\ UNCHANGED <<files, lastOK, partial>>
       ELSE /\ files' = Truncate(files, filename[w])
            /\ lastOK' = Forget(lastOK, filename[w])
            /\ partial' = Forget(partial, filename[w])
            /\ pc' = [pc EXCEPT ![w] = "upload_write"]
            /\ exc' = exc

\* line 81: f.write(file_data)
UploadWrite(w) ==
    /\ pc[w] = "upload_write"
    /\ UNCHANGED <<max_workers, stalled, client>>
    /\ \E flush \in BOOLEAN : WriteFile(w, FileData(header_data[w]), flush)
    /\ pc' = [pc EXCEPT ![w] = IF remaining[w] > 0 THEN "upload_recv"
                                ELSE "upload_close"]
    /\ UNCHANGED <<queued, accepted, conn, header_data, command, filename,
                   filesize, remaining, exc, hist>>

\* lines 82-87: one iteration of the payload loop
UploadRecv(w) ==
    /\ pc[w] = "upload_recv"
    /\ UNCHANGED <<max_workers, stalled, client>>
    /\ UNCHANGED <<queued, accepted, eof, reset, sockOpen, out, header_data,
                   command, filename, filesize, hist>>
    /\ IF reset[w]
       THEN /\ Raise(w, "ConnectionResetError")
            /\ CloseFile(w)
            /\ UNCHANGED <<wire, remaining>>
       ELSE \/ /\ wire[w] # <<>> /\ ~eof[w] /\ ~stalled[w]
               /\ \E n \in 1..Min(Min(BUFFER_SIZE, remaining[w]), Len(wire[w])) :
                    /\ \E flush \in BOOLEAN :
                          WriteFile(w, SubSeq(wire[w], 1, n), flush)
                    /\ wire' = [wire EXCEPT ![w] = SubSeqFrom(@, n + 1)]
                    /\ remaining' = [remaining EXCEPT ![w] = @ - n]
               /\ pc' = [pc EXCEPT ![w] = IF remaining'[w] > 0 THEN "upload_recv"
                                           ELSE "upload_close"]
               /\ exc' = exc
            \/ /\ eof[w]
               \* `if not chunk: break`
               /\ pc' = [pc EXCEPT ![w] = "upload_close"]
               /\ UNCHANGED <<wire, remaining, files, fbuf, fpos, exc>>

\* the payload bytes the handler was given before the stream closed: the
\* payload of the request less what the peer never sent
PayloadReceived(w) ==
    SubSeq(req[w].payload, 1, Len(req[w].payload) - Len(wire[w]))

\* the end of the with block and lines 89-92
UploadClose(w) ==
    /\ pc[w] = "upload_close"
    /\ UNCHANGED <<max_workers, stalled, client>>
    /\ CloseFile(w)
    /\ IF IsIncomplete(remaining[w])
       THEN /\ SendJson(w, "ERROR", Text("Incomplete file received"), "finally")
            /\ lastOK' = lastOK
            /\ partial' = IF reset[w] THEN partial
                          ELSE Remember(partial, filename[w],
                                        [data |-> PayloadReceived(w),
                                         replaced |-> old[w].exists])
       ELSE /\ SendJson(w, "OK", [uploaded |-> filename[w]], "finally")
            /\ lastOK' = IF reset[w] THEN lastOK
                         ELSE Remember(lastOK, filename[w], req[w])
            /\ partial' = partial
    /\ UNCHANGED <<queued, accepted, wire, eof, reset, sockOpen, header_data,
                   command, filename, filesize, remaining, req, old, uploaded,
                   disjoint>>

\* lines 95-97: os.path.exists(filepath)
GetExists(w) ==
    /\ pc[w] = "get_exists"
    /\ UNCHANGED <<max_workers, stalled, client>>
    /\ IF ~Exists(files, filename[w])
       THEN SendJson(w, "ERROR", Text("File not found"), "finally")
       ELSE /\ pc' = [pc EXCEPT ![w] = "get_size"]
            /\ UNCHANGED <<out, exc>>
    /\ UNCHANGED <<files, queued, accepted, wire, eof, reset, sockOpen,
                   header_data, command, filename, filesize, remaining,
                   fbuf, fpos, hist>>

\* lines 99-100: os.path.getsize(filepath) and the OK header
GetSize(w) ==
    /\ pc[w] = "get_size"
    /\ UNCHANGED <<max_workers, stalled, client>>
    /\ IF ~IsDir(filename[w]) /\ filename[w] \notin DOMAIN files
       THEN Raise(w, "FileNotFoundError") /\ UNCHANGED <<filesize, out>>
       ELSE \E size \in (IF IsDir(filename[w]) THEN DirSizes
                         ELSE {Len(files[filename[w]])}) :
               /\ filesize' = [filesize EXCEPT ![w] = size]
               /\ SendJson(w, "OK", FileInfo(filename[w], size), "get_open")
    /\ UNCHANGED <<files, queued, accepted, wire, eof, reset, sockOpen,
                   header_data, command, filename, remaining, fbuf, fpos, hist>>

\* line 102: open(filepath, 'rb')
GetOpen(w) ==
    /\ pc[w] = "get_open"
    /\ UNCHANGED <<max_workers, stalled, client>>
    /\ IF IsDir(filename[w])
       THEN Raise(w, "IsADirectoryError")
       ELSE IF filename[w] \notin DOMAIN files
       THEN Raise(w, "FileNotFoundError")
       ELSE /\ pc' = [pc EXCEPT ![w] = "get_read"]
            /\ exc' = exc
    /\ UNCHANGED <<files, queued, accepted, conn, header_data, command,
                   filename, filesize, remaining, fbuf, fpos, hist>>

\* f.read(BUFFER_SIZE) at file offset pos
\* variant: the read starts one byte past the offset of the file object
ReadAtNext(content, pos) ==
    IF pos + 1 >= Len(content) THEN <<>>
    ELSE SubSeq(content, pos + 2, Min(Len(content), pos + 1 + BUFFER_SIZE))
ReadAt(content, pos) ==
    IF pos >= Len(content) THEN <<>>
    ELSE SubSeq(content, pos + 1, Min(Len(content), pos + BUFFER_SIZE))

\* lines 103-107: one iteration of the read-and-send loop
GetRead(w) ==
    /\ pc[w] = "get_read"
    /\ UNCHANGED <<max_workers, stalled, client>>
    /\ LET chunk == ReadAt(files[filename[w]], fpos[w])
       IN IF chunk = <<>>
          THEN /\ pc' = [pc EXCEPT ![w] = "finally"]
               /\ UNCHANGED <<out, exc, fpos>>
          ELSE IF reset[w]
          THEN Raise(w, "BrokenPipeError") /\ UNCHANGED <<out, fpos>>
          ELSE /\ out' = [out EXCEPT ![w] = @ \o ByteItems(chunk)]
               /\ fpos' = [fpos EXCEPT ![w] = @ + Len(chunk)]
               /\ UNCHANGED <<pc, exc>>
    /\ UNCHANGED <<files, queued, accepted, wire, eof, reset, sockOpen,
                   header_data, command, filename, filesize, remaining,
                   fbuf, hist>>

\* lines 112-117: the handler boundary; a failure to send the ERROR
\* response is swallowed by the bare except
Except(w) ==
    /\ pc[w] = "except"
    /\ UNCHANGED <<max_workers, stalled, client>>
    /\ out' = [out EXCEPT ![w] = IF reset[w] THEN @
                                  ELSE Append(@, JsonFrame("ERROR", Text(exc[w])))]
    /\ pc' = [pc EXCEPT ![w] = "finally"]
    /\ UNCHANGED <<files, queued, accepted, wire, eof, reset, sockOpen,
                   locals, hist>>

\* lines 118-120: conn.close(), and the handler returns to its caller: its
\* locals go out of scope and the connection is gone
Finally(w) ==
    /\ pc[w] = "finally"
    /\ UNCHANGED <<max_workers, stalled, client>>
    /\ sockOpen' = [sockOpen EXCEPT ![w] = FALSE]
    /\ pc' = [pc EXCEPT ![w] = "done"]
    /\ wire' = [wire EXCEPT ![w] = <<>>]
    /\ eof' = [eof EXCEPT ![w] = FALSE]
    /\ reset' = [reset EXCEPT ![w] = FALSE]
    /\ header_data' = [header_data EXCEPT ![w] = <<>>]
    /\ command' = [command EXCEPT ![w] = <<>>]
    /\ filename' = [filename EXCEPT ![w] = <<>>]
    /\ filesize' = [filesize EXCEPT ![w] = 0]
    /\ remaining' = [remaining EXCEPT ![w] = 0]
    /\ fbuf' = [fbuf EXCEPT ![w] = <<>>]
    /\ fpos' = [fpos EXCEPT ![w] = 0]
    /\ old' = [old EXCEPT ![w] = NoFile]
    /\ UNCHANGED <<files, queued, accepted, out, exc, req, lastOK, uploaded,
                   disjoint, partial>>

(***************************************************************************)
(* The peer                                                                *)
(***************************************************************************)
\* the peer closes its side; what is left in wire is never delivered.
\* Only a recv observes the close, so the step is taken while the handler
\* is in one of its two receive loops.
PeerClose(w) ==
    /\ pc[w] \in {"header", "upload_recv"} /\ ~eof[w] /\ ~reset[w]
    /\ eof' = [eof EXCEPT ![w] = TRUE]
    /\ UNCHANGED <<files, queued, accepted, pc, wire, reset, sockOpen, out,
                   locals, hist, max_workers, stalled, client>>

\* the peer resets the connection: the next recv or send on it raises
PeerReset(w) ==
    /\ Running(w) /\ pc[w] # "finally" /\ ~eof[w] /\ ~reset[w]
    /\ reset' = [reset EXCEPT ![w] = TRUE]
    /\ UNCHANGED <<files, queued, accepted, pc, wire, eof, sockOpen, out,
                   locals, hist, max_workers, stalled, client>>

\* the peer stops sending for good, with bytes of its request still to
\* come, and keeps the connection open: recv never returns.  One peer at a
\* time does so.
PeerStall(w) ==
    /\ pc[w] \in {"header", "upload_recv"}
    /\ wire[w] # <<>> /\ ~eof[w] /\ ~reset[w] /\ ~stalled[w]
    /\ \A v \in Workers : ~(Running(v) /\ stalled[v])
    /\ stalled' = [stalled EXCEPT ![w] = TRUE]
    /\ UNCHANGED <<files, queued, accepted, max_workers, pc, conn, locals,
                   hist, client>>

(***************************************************************************)
(* The client driver (src/file_client_cli_test.py).  A connection is named *)
(* by the worker that serves it.  What the server wrote to the connection  *)
(* (out) is what the driver's recv calls return, in chunks of any size; a  *)
(* response frame arrives whole.  The requests of the driver name regular  *)
(* files, for which nothing but payload bytes follows the first frame.     *)
(***************************************************************************)
\* str(file_size)
DigitChar(d) ==
    CASE d = 0 -> "0" [] d = 1 -> "1" [] d = 2 -> "2" [] d = 3 -> "3"
      [] d = 4 -> "4" [] d = 5 -> "5" [] d = 6 -> "6" [] d = 7 -> "7"
      [] d = 8 -> "8" [] d = 9 -> "9"
RECURSIVE Str(_)
Str(n) == IF n < 10 THEN <<DigitChar(n)>>
          ELSE Str(n \div 10) \o <<DigitChar(n % 10)>>

\* the operations of the driver: remote_upload of a local file and
\* remote_download of a file name
UploadOp(name, content) == [op |-> "upload", name |-> name, content |-> content]
DownloadOp(name) == [op |-> "download", name |-> name]
\* contents of the local files the driver uploads
LocalFiles == {<<>>, <<"a">>}
DriverOps == {UploadOp(NameF, c) : c \in LocalFiles} \cup {DownloadOp(NameF)}

\* command_str and file_data_bytes of remote_upload (line 80) and
\* remote_download (line 92)
RequestOf(o) ==
    IF o.op = "upload"
    THEN Req(UPLOAD, o.name, Str(Len(o.content)), o.content)
    ELSE Req(GET, o.name, <<"0">>, <<>>)

\* the size argument of the driver's sock.recv calls
RECV_SIZE == 524288

\* items the server has written that no recv has returned yet
Available(w) == Len(out[w]) - Len(buffer[w])
\* recv returns b"" once the server has closed and everything was read
AtEof(w) == ~sockOpen[w] /\ Available(w) = 0
RecvChunk(w, n) == SubSeq(out[w], Len(buffer[w]) + 1, Len(buffer[w]) + n)

\* `delimiter in buffer`, and buffer.split(delimiter, 1)
FrameAt(buf) ==
    LET hits == {i \in 1..Len(buf) : buf[i].kind = "json"}
    IN IF hits = {} THEN 0 ELSE CHOOSE i \in hits : \A j \in hits : i <= j
RestData(buf) == [i \in 1..(Len(buf) - FrameAt(buf)) |-> buf[FrameAt(buf) + i].b]

\* line 58: `while len(file_data) < filesize`
NeedsMore(file_data, size) == Len(file_data) < size

\* lines 17-21: one iteration of the loop of recv_until
ClientRecvUntil(w) ==
    /\ cpc[w] = "recv_until"
    /\ \/ /\ Available(w) > 0
          /\ \E n \in 1..Min(RECV_SIZE, Available(w)) :
                buffer' = [buffer EXCEPT ![w] = @ \o RecvChunk(w, n)]
          /\ cpc' = [cpc EXCEPT ![w] = IF FrameAt(buffer'[w]) > 0 THEN "parse"
                                        ELSE "recv_until"]
       \/ /\ AtEof(w)
          \* `if not data: break`
          /\ cpc' = [cpc EXCEPT ![w] = "parse"]
          /\ buffer' = buffer
    /\ UNCHANGED <<files, queued, accepted, max_workers, pc, conn, stalled,
                   locals, hist, cop, response, result>>

\* lines 22-26 and 49-56: the header is split off and parsed; json.loads
\* raises on anything but one JSON text, and `except Exception` turns the
\* exception into an ERROR response
ClientParse(w) ==
    /\ cpc[w] = "parse"
    /\ IF FrameAt(buffer[w]) # 1
       THEN /\ response' = [response EXCEPT ![w] =
                   [status |-> "ERROR", data |-> Text("JSONDecodeError")]]
            /\ cpc' = [cpc EXCEPT ![w] = "return"]
       ELSE /\ response' = [response EXCEPT ![w] =
                   [status |-> buffer[w][1].status, data |-> buffer[w][1].data]]
            /\ cpc' = [cpc EXCEPT ![w] =
                   IF /\ buffer[w][1].status = "OK"
                      /\ "filesize" \in DOMAIN buffer[w][1].data
                   THEN "recv_payload" ELSE "return"]
    /\ UNCHANGED <<files, queued, accepted, max_workers, pc, conn, stalled,
                   locals, hist, cop, buffer, result>>

\* lines 56-64: file_data = rest_data, then one iteration of the loop
ClientRecvPayload(w) ==
    /\ cpc[w] = "recv_payload"
    /\ IF NeedsMore(RestData(buffer[w]), response[w].data.filesize)
       THEN \/ /\ Available(w) > 0
               /\ \E n \in 1..Min(RECV_SIZE, Available(w)) :
                     buffer' = [buffer EXCEPT ![w] = @ \o RecvChunk(w, n)]
               /\ UNCHANGED <<cpc, response>>
            \/ /\ AtEof(w)
               \* `if not more_data: break`
               /\ response' = [response EXCEPT ![w] =
                     [status |-> @.status, data |-> @.data,
                      file_data_bytes |-> RestData(buffer[w])]]
               /\ cpc' = [cpc EXCEPT ![w] = "return"]
               /\ buffer' = buffer
       ELSE /\ response' = [response EXCEPT ![w] =
                  [status |-> @.status, data |-> @.data,
                   file_data_bytes |-> RestData(buffer[w])]]
            /\ cpc' = [cpc EXCEPT ![w] = "return"]
            /\ buffer' = buffer
    /\ UNCHANGED <<files, queued, accepted, max_workers, pc, conn, stalled,
                   locals, hist, cop, result>>

\* remote_download, lines 96-119, applied to what send_command returned
DownloadResult(r) ==
    IF r.status # "OK" THEN r
    ELSE IF ~({"filename", "filesize"} \subseteq DOMAIN r.data)
    THEN [status |-> "ERROR",
          data |-> Text("Missing filename or filesize in server response data")]
    ELSE IF \/ "file_data_bytes" \notin DOMAIN r
            \/ r.file_data_bytes = <<>>
            \/ Len(r.file_data_bytes) < r.data.filesize
    THEN [status |-> "ERROR", data |-> Text("File data incomplete or missing")]
    ELSE [status |-> "OK", data |-> r.data,
          file_data_bytes |-> r.file_data_bytes,
          download_path |-> <<"download_">> \o r.data.filename,
          saved |-> r.file_data_bytes]

\* line 72, sock.close(), and the rest of remote_upload (line 85) or
\* remote_download.  A server still sending on the connection finds it
\* reset, or not yet.
ClientReturn(w) ==
    /\ cpc[w] = "return"
    /\ cpc' = [cpc EXCEPT ![w] = "returned"]
    /\ result' = [result EXCEPT ![w] =
          IF cop[w].op = "download" THEN DownloadResult(response[w])
          ELSE response[w]]
    /\ \E r \in (IF Running(w) /\ pc[w] # "finally" THEN BOOLEAN ELSE {FALSE}) :
          reset' = [reset EXCEPT ![w] = r]
    /\ UNCHANGED <<files, queued, accepted, max_workers, pc, wire, eof,
                   sockOpen, out, stalled, locals, hist, cop, buffer, response>>

ClientStep(w) ==
    \/ ClientRecvUntil(w)
    \/ ClientParse(w)
    \/ ClientRecvPayload(w)
    \/ ClientReturn(w)

(***************************************************************************)
(* Dispatchers                                                             *)
(***************************************************************************)
\* start_server_single, lines 132-134: accept, then run the handler inline
AcceptSingle ==
    /\ ~Running(1)
    /\ \E r \in Requests : StartHandler(1, r)
    /\ UNCHANGED <<queued, accepted, client>>

\* start_server_threaded, lines 144-146: accept and submit to the executor
AcceptThreaded ==
    /\ accepted < MaxConns
    /\ accepted' = accepted + 1
    /\ queued' = queued + 1
    /\ UNCHANGED <<files, pc, conn, locals, hist, max_workers, stalled, client>>

\* variant: the work item is run only when no handler is running, as if
\* the accept loop ran the handlers inline
WorkerTakeInline(w) ==
    /\ queued > 0
    /\ w <= max_workers
    /\ \A v \in Workers : ~Running(v)
    /\ queued' = queued - 1
    /\ \E r \in PoolRequests : StartHandler(w, r)
    /\ UNCHANGED <<accepted, client>>
\* a free worker thread of the ThreadPoolExecutor takes the next work item;
\* the threads are interchangeable, the free one of lowest number takes it
WorkerTake(w) ==
    /\ queued > 0
    /\ w <= max_workers
    /\ ~Running(w)
    /\ \A v \in 1..(w - 1) : Running(v)
    /\ queued' = queued - 1
    /\ \E r \in PoolRequests : StartHandler(w, r)
    /\ UNCHANGED <<accepted, client>>

HandlerStep(w) ==
    \/ RecvHeader(w)
    \/ ParseRequest(w)
    \/ UploadOpen(w)
    \/ UploadWrite(w)
    \/ UploadRecv(w)
    \/ UploadClose(w)
    \/ GetExists(w)
    \/ GetSize(w)
    \/ GetOpen(w)
    \/ GetRead(w)
    \/ Except(w)
    \/ Finally(w)

Next ==
    \/ AcceptSingle
    \/ HandlerStep(1)
    \/ PeerClose(1)
    \/ PeerReset(1)

Spec == Init /\ [][Next]_vars

NextThreaded ==
    \/ AcceptThreaded
    \/ \E w \in Workers : WorkerTake(w)
    \/ \E w \in Workers : HandlerStep(w)
    \/ \E w \in Workers : PeerClose(w)
    \/ \E w \in Workers : PeerReset(w)

InitThreaded ==
    /\ files = StoredBefore
    /\ queued = 0
    /\ accepted = 0
    /\ pc = [w \in Workers |-> "idle"]
    /\ wire = [w \in Workers |-> <<>>]
    /\ eof = [w \in Workers |-> FALSE]
    /\ reset = [w \in Workers |-> FALSE]
    /\ sockOpen = [w \in Workers |-> FALSE]
    /\ out = [w \in Workers |-> <<>>]
    /\ header_data = [w \in Workers |-> <<>>]
    /\ command = [w \in Workers |-> <<>>]
    /\ filename = [w \in Workers |-> <<>>]
    /\ filesize = [w \in Workers |-> 0]
    /\ remaining = [w \in Workers |-> 0]
    /\ fbuf = [w \in Workers |-> <<>>]
    /\ fpos = [w \in Workers |-> 0]
    /\ exc = [w \in Workers |-> ""]
    /\ req = [w \in Workers |-> NoRequest]
    /\ old = [w \in Workers |-> NoFile]
    /\ lastOK = <<>>
    /\ uploaded = DOMAIN files
    /\ disjoint = [w \in Workers |-> TRUE]
    /\ partial = <<>>
    /\ stalled = [w \in Workers |-> FALSE]
    /\ cop = [w \in Workers |-> NoOp]
    /\ cpc = [w \in Workers |-> "none"]
    /\ buffer = [w \in Workers |-> <<>>]
    /\ response = [w \in Workers |-> NoResponse]
    /\ result = [w \in Workers |-> NoResponse]
    /\ max_workers \in 1..NumWorkers

SpecThreaded == InitThreaded /\ [][NextThreaded]_vars

\* the steps of the threads of the pool
ServerStep == \E w \in Workers : WorkerTake(w) \/ HandlerStep(w)

\* the thread-pool server with peers that deliver their request or stall.
\* The threads of the pool are scheduled: as long as some thread can take
\* a step (a handler its next call, a free thread a waiting work item),
\* a step is taken; a recv on a connection whose peer has stalled is not
\* a step that can be taken.
NextStall ==
    \/ AcceptThreaded
    \/ \E w \in Workers : WorkerTake(w)
    \/ \E w \in Workers : HandlerStep(w)
    \/ \E w \in Workers : PeerStall(w)

SpecStall ==
    /\ InitThreaded
    /\ [][NextStall]_vars
    /\ WF_vars(ServerStep)

\* a free worker thread takes a connection on which the client driver runs
\* the operation o; the connection is named by the worker, so the worker
\* is taken to be free for it once the driver of its last one has returned
DriverTake(w) ==
    /\ queued > 0
    /\ w <= max_workers
    /\ ~Running(w)
    /\ cpc[w] \in {"none", "returned"}
    /\ \A v \in 1..(w - 1) : Running(v) \/ cpc[v] \notin {"none", "returned"}
    /\ queued' = queued - 1
    /\ \E o \in DriverOps :
          /\ StartHandler(w, RequestOf(o))
          /\ cop' = [cop EXCEPT ![w] = o]
    /\ cpc' = [cpc EXCEPT ![w] = "recv_until"]
    /\ buffer' = [buffer EXCEPT ![w] = <<>>]
    /\ response' = [response EXCEPT ![w] = NoResponse]
    /\ result' = [result EXCEPT ![w] = NoResponse]
    /\ UNCHANGED accepted

\* the thread-pool server with the client driver as the peer of every
\* connection
NextDriver ==
    \/ AcceptThreaded
    \/ \E w \in Workers : DriverTake(w)
    \/ \E w \in Workers : HandlerStep(w)
    \/ \E w \in Workers : ClientStep(w)

SpecDriver == InitThreaded /\ [][NextDriver]_vars


(***************************************************************************)
(* Vocabulary of the properties.  They are stated over the request the     *)
(* peer set out to send (req), what of it was delivered (wire), what the   *)
(* handler wrote (out) and the storage directory (files).                  *)
(***************************************************************************)
\* the handler has left its try block: its response is complete and
\* conn.close() is the next step
Ended(w) == pc[w] = "finally"

HeaderLen(r) == Len(JoinTokens(r.tokens)) + Len(DELIM)
Delivered(w) == Len(Stream(req[w])) - Len(wire[w])
HeaderDelivered(w) == Delivered(w) >= HeaderLen(req[w])
PayloadDelivered(w) == Delivered(w) - HeaderLen(req[w])
\* payload bytes that arrived in the reads of the header loop
LeftoverLen(w) == Len(header_data[w]) - HeaderLen(req[w])

IsDecimal(tok) == tok # <<>> /\ \A i \in 1..Len(tok) : tok[i] \in Digits
IsInteger(tok) ==
    \/ IsDecimal(tok)
    \/ tok # <<>> /\ Head(tok) \in {"-", "+"} /\ IsDecimal(Tail(tok))
Declared(r) ==
    IF Head(r.tokens[3]) = "-" THEN 0 - DecimalVal(Tail(r.tokens[3]))
    ELSE IF Head(r.tokens[3]) = "+" THEN DecimalVal(Tail(r.tokens[3]))
    ELSE DecimalVal(r.tokens[3])

\* UPLOAD <regular name> <integer>
IsUploadReq(r) ==
    /\ Len(r.tokens) = 3
    /\ r.tokens[1] = UPLOAD
    /\ IsRegularName(r.tokens[2])
    /\ IsInteger(r.tokens[3])
\* an UPLOAD that declares the length of the payload it carries
CompleteUpload(r) == IsUploadReq(r) /\ Declared(r) = Len(r.payload)
\* GET <regular name> <integer>
IsGetReq(r) ==
    /\ Len(r.tokens) = 3
    /\ r.tokens[1] \in {GET, get}
    /\ IsRegularName(r.tokens[2])
    /\ IsInteger(r.tokens[3])

ErrorReply(msg) == <<JsonFrame("ERROR", Text(msg))>>
UploadedReply(name) == <<JsonFrame("OK", [uploaded |-> name])>>
GetReply(name, content) ==
    <<JsonFrame("OK", FileInfo(name, Len(content)))>> \o ByteItems(content)

(***************************************************************************)
(* Properties                                                              *)
(***************************************************************************)
\* C1 Round-trip: once an UPLOAD F L carrying the L bytes B has been
\* answered OK and no other upload of F has started since, a GET F that
\* was delivered and ends on an intact connection has written the OK header with
\* filesize = L followed by exactly the bytes of B, for every split of
\* the request into reads.
RoundTrip ==
    \A w \in Workers :
        ( /\ Ended(w) /\ ~reset[w]
          /\ IsGetReq(req[w]) /\ HeaderDelivered(w)
          /\ NameOf(req[w]) \in DOMAIN lastOK
          /\ CompleteUpload(lastOK[NameOf(req[w])])
          /\ NameOf(lastOK[NameOf(req[w])]) = NameOf(req[w]) )
        => out[w] = GetReply(NameOf(req[w]), lastOK[NameOf(req[w])].payload)

RoundTripWitness ==
    \E w \in Workers :
        /\ Ended(w) /\ ~reset[w]
        /\ IsGetReq(req[w]) /\ HeaderDelivered(w)
        /\ NameOf(req[w]) \in DOMAIN lastOK
        /\ CompleteUpload(lastOK[NameOf(req[w])])
        /\ lastOK[NameOf(req[w])].payload = <<"b", BadByte>>
        /\ out[w] = GetReply(NameOf(req[w]), <<"b", BadByte>>)

\* the file names the filename rule is to reject: one that contains '/',
\* contains '..', or has a character outside word characters, '-' and '.'
RejectedName(n) ==
    \/ \E i \in 1..Len(n) : n[i] = "/"
    \/ \E i \in 1..(Len(n) - 1) : n[i] = "." /\ n[i + 1] = "."
    \/ \E i \in 1..Len(n) :
          n[i] \notin LowerCase \cup UpperCase \cup Digits \cup {"_", "-", "."}

HasRejectedName(r) ==
    /\ Len(r.tokens) = 3
    /\ r.tokens[1] \in {UPLOAD, GET}
    /\ RejectedName(r.tokens[2])

\* C2 Filename validation: a request whose filename contains '/', contains
\* '..' or has a character outside word characters, hyphen and dot is
\* answered ERROR "Invalid filename", and its handler never gets to the
\* steps that create, truncate, test or read a file.
FilenameValidation ==
    \A w \in Workers :
        HasRejectedName(req[w]) =>
            /\ pc[w] \notin {"upload_open", "upload_write", "upload_recv",
                             "upload_close", "get_exists", "get_size",
                             "get_open", "get_read"}
            /\ (Ended(w) /\ ~reset[w]) => out[w] = ErrorReply("Invalid filename")

\* C3 Short-upload detection: an UPLOAD of a regular file name declaring
\* size S whose peer closes the stream after delivering the header and
\* fewer than S payload bytes is answered ERROR "Incomplete file received"
\* and nothing else, for every split of the delivered bytes into reads.
ShortUpload ==
    \A w \in Workers :
        ( /\ Ended(w) /\ eof[w]
          /\ IsUploadReq(req[w])
          /\ HeaderDelivered(w)
          /\ PayloadDelivered(w) < Declared(req[w]) )
        => out[w] = ErrorReply("Incomplete file received")

ShortUploadWitness ==
    \E w \in Workers :
        /\ Ended(w) /\ eof[w]
        /\ IsUploadReq(req[w])
        /\ Declared(req[w]) = 2
        /\ PayloadDelivered(w) = 1
        /\ LeftoverLen(w) = 0
        /\ out[w] = ErrorReply("Incomplete file received")

\* C4 Malformed request: a request whose header text, the bytes before the
\* first delimiter, has fewer than 3 tokens is answered ERROR "Invalid
\* command format" and never gets to the steps of an UPLOAD or a GET,
\* whatever bytes follow the delimiter.
MalformedRequest ==
    \A w \in Workers :
        (Len(req[w].tokens) < 3 /\ HeaderDelivered(w)) =>
            /\ pc[w] \notin {"upload_open", "upload_write", "upload_recv",
                             "upload_close", "get_exists", "get_size",
                             "get_open", "get_read"}
            /\ (Ended(w) /\ ~reset[w])
                  => out[w] = ErrorReply("Invalid command format")

\* C5 Oversized declaration: when more payload bytes were read along with
\* the header than the UPLOAD declares, the answer is ERROR "File size
\* smaller than received data" and the file of that name is as it was
\* when the header arrived: absent, or with its previous content.
OversizedRejected ==
    \A w \in Workers :
        ( /\ Ended(w) /\ ~reset[w]
          /\ IsUploadReq(req[w])
          /\ HeaderDelivered(w)
          /\ LeftoverLen(w) > Declared(req[w]) )
        => /\ out[w] = ErrorReply("File size smaller than received data")
           /\ Snapshot(files, NameOf(req[w])) = old[w]

OversizedRejectedWitness ==
    \E w \in Workers :
        /\ Ended(w) /\ ~reset[w]
        /\ IsUploadReq(req[w])
        /\ LeftoverLen(w) = 2 /\ Declared(req[w]) = 1
        /\ old[w].exists /\ old[w].data = <<"a">>
        /\ out[w] = ErrorReply("File size smaller than received data")
        /\ files[NameOf(req[w])] = <<"a">>

\* C6 Missing file: a delivered GET of a regular file name that no UPLOAD
\* request has named is answered with the single frame ERROR "File not found", and no
\* payload byte follows it.
MissingFile ==
    \A w \in Workers :
        ( /\ Ended(w) /\ ~reset[w]
          /\ IsGetReq(req[w]) /\ HeaderDelivered(w)
          /\ NameOf(req[w]) \notin uploaded )
        => out[w] = ErrorReply("File not found")

MissingFileWitness ==
    \E w \in Workers :
        /\ Ended(w) /\ ~reset[w]
        /\ IsGetReq(req[w]) /\ HeaderDelivered(w)
        /\ NameOf(req[w]) \notin uploaded
        /\ DOMAIN files # {}
        /\ out[w] = ErrorReply("File not found")

\* C7 Overwrite: when an UPLOAD of F carrying B2 has been answered OK, the
\* stored file F is exactly B2, whatever F held before, in particular a
\* longer B1 of an earlier successful upload.
Overwrite ==
    \A w \in Workers :
        ( /\ Ended(w)
          /\ CompleteUpload(req[w])
          /\ out[w] = UploadedReply(NameOf(req[w])) )
        => /\ NameOf(req[w]) \in DOMAIN files
           /\ files[NameOf(req[w])] = req[w].payload

OverwriteWitness ==
    \E w \in Workers :
        /\ Ended(w)
        /\ CompleteUpload(req[w])
        /\ out[w] = UploadedReply(NameOf(req[w]))
        /\ old[w].exists /\ old[w].data = <<"b", BadByte>>
        /\ req[w].payload = <<"a">>
        /\ files[NameOf(req[w])] = <<"a">>


\* C8 Concurrent dispatch equivalence: under the thread pool, an UPLOAD
\* whose file name no handler running at the same time was sent ends, in
\* every interleaving, as it ends under start_server_single (Overwrite):
\* answered OK, with the stored file equal to the payload it carried.
DispatchEquivalence ==
    \A w \in Workers :
        ( /\ Ended(w) /\ ~reset[w]
          /\ CompleteUpload(req[w])
          /\ wire[w] = <<>>
          /\ disjoint[w] )
        => /\ out[w] = UploadedReply(NameOf(req[w]))
           /\ NameOf(req[w]) \in DOMAIN files
           /\ files[NameOf(req[w])] = req[w].payload

DispatchEquivalenceWitness ==
    \E w, v \in Workers :
        /\ w # v
        /\ Ended(w) /\ Ended(v)
        /\ disjoint[w] /\ disjoint[v]
        /\ CompleteUpload(req[w]) /\ CompleteUpload(req[v])
        /\ NameOf(req[w]) = NameF /\ NameOf(req[v]) = NameG
        /\ out[w] = UploadedReply(NameF) /\ out[v] = UploadedReply(NameG)
        /\ files[NameF] = <<"a", "b">> /\ files[NameG] = <<"b">>

\* the error the handler is in a position to detect, from the bytes its
\* header loop received, the file as it was then, and the peer's close
Received(w) == Split(Decode(header_data[w]))
LeftoverOf(w) == Len(header_data[w]) - (Find(header_data[w], DELIM) + 4)
DeclaredBy(tok) ==
    IF Head(tok) = "-" THEN 0 - DecimalVal(Tail(tok))
    ELSE IF Head(tok) = "+" THEN DecimalVal(Tail(tok))
    ELSE DecimalVal(tok)
InCharset(n) ==
    \A i \in 1..Len(n) :
        n[i] \in LowerCase \cup UpperCase \cup Digits \cup {"_", "-", "."}
DetectedError(w) ==
    LET t == Received(w)
    IN IF ~Contains(header_data[w], DELIM) THEN "none"
       ELSE IF Len(t) < 3 THEN "Invalid command format"
       ELSE IF ~InCharset(t[2]) THEN "Invalid filename"
       ELSE IF ~IsInteger(t[3]) THEN "Invalid file size"
       ELSE IF Upper(t[1]) = UPLOAD
       THEN IF LeftoverOf(w) > DeclaredBy(t[3])
            THEN "File size smaller than received data"
            ELSE IF /\ ~IsDir(t[2]) /\ eof[w]
                    /\ Delivered(w) - (Find(header_data[w], DELIM) + 4)
                          < DeclaredBy(t[3])
            THEN "Incomplete file received"
            ELSE "none"
       ELSE IF Upper(t[1]) = GET
       THEN IF ~IsDir(t[2]) /\ ~old[w].exists THEN "File not found" ELSE "none"
       ELSE "none"

\* C9 Error propagation: when the handler has detected a malformed request,
\* an invalid filename, an invalid size, a missing file, a size mismatch or
\* an incomplete transfer, and the peer has not reset the connection, then
\* by the time it ends it has written exactly the ERROR frame of that
\* error on the still open connection; closing leaves what was written
\* as it is, and no handler goes back to reading a request.
ErrorPropagation ==
    /\ [](\A w \in Workers :
            (Ended(w) /\ ~reset[w] /\ DetectedError(w) # "none")
            => (out[w] = ErrorReply(DetectedError(w)) /\ sockOpen[w]))
    /\ [][\A w \in Workers :
            /\ pc[w] = "finally" => out'[w] = out[w]
            /\ pc[w] \notin {"idle", "done", "header"} => pc'[w] # "header"]_vars

ErrorPropagationWitness ==
    \E w \in Workers :
        /\ Ended(w) /\ ~reset[w] /\ sockOpen[w]
        /\ DetectedError(w) = "Invalid file size"
        /\ out[w] = ErrorReply("Invalid file size")

\* C10 Fault isolation: a handler ends only through its finally block, and
\* when it has ended its connection is closed; an exception raised at any
\* step is held at the handler boundary, which leads to the finally block
\* also when the ERROR response cannot be sent; and the steps a handler
\* takes from its exception to its end change nothing of the other
\* workers, of the executor's queue or of the accept loop.
FaultIsolation ==
    /\ [](\A w \in Workers :
            /\ pc[w] = "done" => ~sockOpen[w]
            /\ exc[w] # "" => pc[w] \in {"except", "finally", "done"})
    /\ [][\A w \in Workers :
            /\ pc[w] = "except" => pc'[w] \in {"except", "finally"}
            /\ (Running(w) /\ ~Running(w)') => pc[w] = "finally"
            /\ (pc[w] \in {"except", "finally"} /\ pc'[w] # pc[w])
                  => /\ \A v \in Workers \ {w} :
                           /\ pc'[v] = pc[v]
                           /\ out'[v] = out[v]
                           /\ sockOpen'[v] = sockOpen[v]
                     /\ UNCHANGED <<files, queued, accepted>>]_vars

FaultIsolationWitness ==
    \E w, v \in Workers :
        /\ w # v
        /\ pc[w] = "done" /\ exc[w] = "ConnectionResetError"
        /\ out[w] = <<>> /\ ~sockOpen[w]
        /\ Ended(v) /\ exc[v] = ""
        /\ out[v] = UploadedReply(NameOf(req[v]))
        /\ accepted = MaxConns

\* the driver of the connection has returned to its caller
Returned(w) == cpc[w] = "returned"
\* the server announced a file of length 0 to a download no upload of the
\* same file name ran alongside
EmptyDownload(w) ==
    /\ Returned(w)
    /\ cop[w].op = "download"
    /\ disjoint[w]
    /\ response[w].status = "OK"
    /\ "filesize" \in DOMAIN response[w].data
    /\ response[w].data.filesize = 0

\* C11 Zero-byte files through the client driver: remote_upload of an
\* empty file returns status OK and, with no other upload of the name
\* alongside, the stored file is empty; remote_download of a stored empty
\* file returns status OK with filesize 0 and writes an empty download
\* file; neither receives a payload byte.
ZeroByteFiles ==
    \A w \in Workers :
        /\ (Returned(w) /\ cop[w] = UploadOp(NameF, <<>>))
              => result[w].status = "OK"
        /\ (Ended(w) /\ disjoint[w] /\ cop[w] = UploadOp(NameF, <<>>))
              => (NameF \in DOMAIN files /\ files[NameF] = <<>>)
        /\ EmptyDownload(w)
              => /\ result[w].status = "OK"
                 /\ result[w].data.filesize = 0
                 /\ "saved" \in DOMAIN result[w]
                 /\ result[w].saved = <<>>
                 /\ buffer[w] = <<JsonFrame("OK", FileInfo(NameF, 0))>>

\* GET <regular name> <any token>, delivered whole on a connection that
\* stayed intact
AnsweredGet(w) ==
    /\ Ended(w) /\ ~reset[w] /\ HeaderDelivered(w)
    /\ Len(req[w].tokens) = 3
    /\ req[w].tokens[1] \in {GET, get}
    /\ IsRegularName(req[w].tokens[2])
\* what a GET of the name is answered, whatever its SIZE token
AnswerOf(name) ==
    IF name \in DOMAIN files THEN GetReply(name, files[name])
    ELSE ErrorReply("File not found")

\* C12 as stated: the response and payload of GET F s depend on F and the
\* stored file only, for every token s, and no s makes the server reject
\* the GET.
SizeIgnored ==
    \A w \in Workers : AnsweredGet(w) => out[w] = AnswerOf(NameOf(req[w]))

\* C12 amended: the response and payload of GET F s are the same for
\* every token s that int() accepts, whatever its value and sign; a token
\* int() refuses is answered ERROR "Invalid file size".
SizeIgnoredIfInteger ==
    \A w \in Workers :
        AnsweredGet(w) =>
            out[w] = IF IsInteger(req[w].tokens[3])
                     THEN AnswerOf(NameOf(req[w]))
                     ELSE ErrorReply("Invalid file size")

SizeIgnoredIfIntegerWitness ==
    \E w \in Workers :
        /\ AnsweredGet(w)
        /\ req[w].tokens[3] = <<"-", "1">>
        /\ NameOf(req[w]) \in DOMAIN files
        /\ files[NameOf(req[w])] = <<"a">>
        /\ out[w] = GetReply(NameOf(req[w]), <<"a">>)

\* every worker thread of the pool is running a handler
AllBusy == \A w \in 1..max_workers : Running(w)

\* C13 Shared-pool saturation: while all workers of the pool are busy, the
\* dispatcher holds no connection it has accepted and not handed to a
\* worker; further connections wait unaccepted in the listen backlog.
PoolSaturation == AllBusy => queued = 0

\* the handler has returned with a response written and the connection closed
Answered(w) == pc[w] = "done" /\ ~sockOpen[w] /\ out[w] # <<>>

\* C14 Stall isolation: with a pool of at least two workers and one peer
\* that has stopped sending for good, every connection waiting in the
\* executor is eventually taken by a worker, and every handler whose peer
\* has not stalled eventually returns with a response written and its
\* connection closed.
StallIsolation ==
    /\ (max_workers >= 2 /\ queued > 0) ~> (queued = 0)
    /\ \A w \in Workers :
          (max_workers >= 2 /\ Running(w)) ~> (stalled[w] \/ Answered(w))

StallIsolationWitness ==
    \E w, v \in Workers :
        /\ w # v
        /\ Running(w) /\ stalled[w] /\ pc[w] = "header" /\ header_data[w] = <<>>
        /\ Answered(v) /\ out[v] = UploadedReply(NameG)
        /\ accepted = MaxConns /\ queued = 0

\* the first n bytes that follow the first delimiter of the stream of r
\* (the header tokens hold no delimiter, so that is where the payload starts)
PayloadPrefix(r, n) == SubSeq(r.payload, 1, Min(n, Len(r.payload)))

\* C15 Leftover handling: when an UPLOAD has been answered OK, the stored
\* file is exactly the first declaredSize bytes that follow the first
\* delimiter of the stream, in order, however the stream was split into
\* recv chunks (payload with the header, payload over several reads, the
\* delimiter over two reads) and also when the payload holds the delimiter.
LeftoverHandling ==
    \A w \in Workers :
        ( /\ Ended(w)
          /\ IsUploadReq(req[w])
          /\ out[w] = UploadedReply(NameOf(req[w])) )
        => /\ NameOf(req[w]) \in DOMAIN files
           /\ Len(files[NameOf(req[w])]) = Declared(req[w])
           /\ files[NameOf(req[w])] = PayloadPrefix(req[w], Declared(req[w]))

LeftoverHandlingWitness ==
    \E w \in Workers :
        /\ Ended(w)
        /\ IsUploadReq(req[w])
        /\ out[w] = UploadedReply(NameOf(req[w]))
        /\ req[w].payload = DELIM
        /\ LeftoverLen(w) = 2
        /\ files[NameOf(req[w])] = DELIM

\* C16 Exact-length payload receive: on the server, once the payload loop
\* of an UPLOAD runs, the bytes taken (leftover plus later reads) never
\* exceed filesize, each read being bounded by remaining; on the client, the
\* payload held for a successful download never exceeds the announced
\* filesize.
ExactLengthReceive ==
    \A w \in Workers :
        /\ (Running(w) /\ pc[w] \in {"upload_recv", "upload_close"})
           => /\ remaining[w] >= 0
              /\ filesize[w] - remaining[w] <= filesize[w]
        /\ ( /\ Returned(w)
             /\ cop[w].op = "download"
             /\ result[w].status = "OK" )
           => Len(result[w].file_data_bytes) <= result[w].data.filesize

\* a GET that was delivered whole and whose handler ended on an intact
\* connection
EndedGet(w) ==
    /\ Ended(w) /\ ~reset[w]
    /\ IsGetReq(req[w]) /\ HeaderDelivered(w)
\* the OK header of a GET was written: the filesize it announces and the
\* payload bytes that follow it
Announced(w) ==
    /\ out[w] # <<>>
    /\ out[w][1].kind = "json"
    /\ out[w][1].status = "OK"
AnnouncedSize(w) == out[w][1].data.filesize
PayloadSent(w) == SubSeqFrom(out[w], 2)

\* C17 GET/UPLOAD race: a GET of F during which no other handler of F ran
\* is answered with the filesize of the stored file followed by exactly its
\* bytes (or File not found); so a GET whose payload byte count differs from
\* the announced filesize overlapped a handler of F.  That such a GET
\* exists under the thread pool is the witness.
GetUploadRace ==
    \A w \in Workers :
        EndedGet(w) =>
            /\ disjoint[w] =>
                  out[w] = IF NameOf(req[w]) \in DOMAIN files
                           THEN GetReply(NameOf(req[w]), files[NameOf(req[w])])
                           ELSE ErrorReply("File not found")
            /\ (Announced(w) /\ Len(PayloadSent(w)) # AnnouncedSize(w))
                  => ~disjoint[w]

\* the GET announced the size of the old content and sent a payload that is
\* neither the old content nor the content of the concurrent upload
GetUploadRaceWitness ==
    \E w, v \in Workers :
        /\ w # v
        /\ EndedGet(w) /\ NameOf(req[w]) = NameF
        /\ IsUploadReq(req[v]) /\ NameOf(req[v]) = NameF
        /\ Announced(w)
        /\ AnnouncedSize(w) = Len(StoredBefore[NameF])
        /\ Len(PayloadSent(w)) # AnnouncedSize(w)
        /\ PayloadSent(w) \notin {ByteItems(StoredBefore[NameF]),
                                  ByteItems(req[v].payload)}
        /\ PayloadSent(w) # <<>>

\* C18 No rollback on incomplete upload: when an UPLOAD of F has been
\* answered ERROR "Incomplete file received", the stored file F exists and
\* holds exactly the payload bytes received before the stream closed, fewer
\* than the declared size, whatever F held before; and a later GET F, with
\* no upload of F in between, is answered OK with those bytes.
NoRollback ==
    \A w \in Workers :
        /\ ( /\ Ended(w)
             /\ IsUploadReq(req[w])
             /\ out[w] = ErrorReply("Incomplete file received") )
           => /\ NameOf(req[w]) \in DOMAIN files
              /\ files[NameOf(req[w])] = PayloadReceived(w)
              /\ Len(files[NameOf(req[w])]) < Declared(req[w])
        /\ ( /\ Ended(w) /\ ~reset[w]
             /\ IsGetReq(req[w]) /\ HeaderDelivered(w)
             /\ NameOf(req[w]) \in DOMAIN partial )
           => out[w] = GetReply(NameOf(req[w]), partial[NameOf(req[w])].data)

\* a GET answered with the one byte an incomplete upload left in the place
\* of a file that existed before that upload
NoRollbackWitness ==
    \E w \in Workers :
        /\ Ended(w) /\ ~reset[w]
        /\ IsGetReq(req[w]) /\ HeaderDelivered(w)
        /\ NameOf(req[w]) \in DOMAIN partial
        /\ partial[NameOf(req[w])].data = <<"a">>
        /\ partial[NameOf(req[w])].replaced
        /\ out[w] = GetReply(NameOf(req[w]), <<"a">>)

\* the positions of the JSON response header frames written on the
\* connection of w
JsonFramesOf(w) == {i \in 1..Len(out[w]) : out[w][i].kind = "json"}

\* C19 Single response per connection: in every execution of the handler
\* at most one JSON response header frame is written on the connection,
\* and an ERROR frame is only ever the first thing written: never after an
\* OK frame, never after payload bytes.
SingleResponse ==
    \A w \in Workers :
        /\ Cardinality(JsonFramesOf(w)) <= 1
        /\ \A i \in JsonFramesOf(w) : out[w][i].status = "ERROR" => i = 1

\* C20 Truncated header: when the stream closes before the delimiter has
\* been received, whatever bytes were sent before and however they were
\* split into reads, the handler ends without having written anything on
\* the connection; no step taken while the handler is in its header loop
\* changes the storage, and the handler's last step closes the connection.
TruncatedHeader ==
    /\ [](\A w \in Workers :
            (Ended(w) /\ ~HeaderDelivered(w)) => out[w] = <<>>)
    /\ [][\A w \in Workers :
            /\ pc[w] = "header" => files' = files
            /\ (pc[w] = "header" /\ eof[w] /\ ~reset[w] /\ pc'[w] # "header")
                  => pc'[w] = "finally" /\ out'[w] = <<>>
            /\ (pc[w] = "finally" /\ pc'[w] = "done")
                  => ~sockOpen'[w] /\ files' = files]_vars

\* the stream closed after some bytes of the header, before its delimiter
TruncatedHeaderWitness ==
    \E w \in Workers :
        /\ Ended(w) /\ eof[w] /\ ~reset[w]
        /\ header_data[w] # <<>>
        /\ ~Contains(header_data[w], DELIM)
        /\ ~HeaderDelivered(w)
        /\ out[w] = <<>>
        /\ DOMAIN files # {}

====
